---- MODULE Spec2Model ----
(***************************************************************************)
(* AB_Testing.py: a linear script that loads the "Control Group" and       *)
(* "Test Group" sheets, prints descriptive statistics, caps the outliers   *)
(* of "Purchase", labels and concatenates the two frames, and runs         *)
(* Shapiro-Wilk, Levene and an independent t-test, printing a verdict for  *)
(* each.                                                                   *)
(*                                                                         *)
(* Numbers.  Column values are exact fixed-point numbers: the integer k    *)
(* stands for k / Unit.  Every division of the capping arithmetic is exact *)
(* for as many applications as the model makes (see ExactArithmetic), so   *)
(* the model computes with the real numbers the floats approximate.        *)
(* p-values are in hundredths: 5 is 0.05.                                  *)
(*                                                                         *)
(* Library routines (shapiro, levene, ttest_ind) are external: their       *)
(* (statistic, p-value) results are drawn from StatValues \X PValues.      *)
(***************************************************************************)
EXTENDS Integers, Sequences, FiniteSets, TLC

VARIABLES
    xlsx,        \* the workbook on disk: [exists, sheets]
    dfc,         \* control frame (line 48)
    dft,         \* test frame (line 49)
    df,          \* concatenated frame (line 102)
    statistic,   \* lines 121, 128, 141
    p_value,     \* lines 121, 128, 141, 154
    alpha,       \* lines 122, 129, 142
    test_stat,   \* line 154
    stdout,      \* what print() has written, in order
    calls,       \* the scipy.stats calls made, in order, with their arguments
    returned,    \* the value the last scipy.stats call returned
    limits,      \* per group, the (low_limit, up_limit) of each application of replace_with_thresholds
    error,       \* the exception that ended the run, or Undefined
    pc           \* position in the script

vars == <<xlsx, dfc, dft, df, statistic, p_value, alpha, test_stat,
          stdout, calls, returned, limits, error, pc>>

-----------------------------------------------------------------------------
(* Bounds of the model *)

SmallRows == 3          \* rows of a small sheet
LargeRows == 62         \* rows of a large sheet
MaxHead == 1            \* leading rows whose Purchase is chosen freely
Typical == 10           \* Purchase of the remaining rows
MaxApplications == 2    \* applications of replace_with_thresholds per group (CapSpec)

RECURSIVE Pow(_, _)
Pow(b, e) == IF e = 0 THEN 1 ELSE b * Pow(b, e - 1)

\* one application of replace_with_thresholds divides by 100 (quantile) and by 2 (1.5 *)
Unit == Pow(200, MaxApplications)

PurchaseValues == {0, Typical, 2 * Typical}
RowCounts == {SmallRows, LargeRows}
PValues == {4, 5, 6}
StatValues == {1, 2}

Undefined == "undefined"       \* a name not yet bound to a number
NoFrame == [unbound |-> TRUE]   \* a name not yet bound to a frame

Min(a, b) == IF a < b THEN a ELSE b

Range(s) == {s[i] : i \in DOMAIN s}

-----------------------------------------------------------------------------
(* The workbook *)

Columns == {"Impression", "Click", "Purchase", "Earning"}

\* tag distinguishes the rows of the two sheets
Sheet(tag, n, head) ==
    [columns |-> Columns,
     index   |-> [i \in 1..n |-> i - 1],
     rows    |-> [i \in 1..n |->
                    [c \in Columns |->
                        CASE c = "Impression" -> 1000 * tag + i
                          [] c = "Click"      -> 100 * tag + i
                          [] c = "Earning"    -> 10 * tag + i
                          [] c = "Purchase"   ->
                               Unit * (IF i <= Len(head) THEN head[i] ELSE Typical)]]]

Sheets(tag) ==
    {Sheet(tag, n, head) : n \in RowCounts, head \in [1..MaxHead -> PurchaseValues]}

DropColumn(sheet, variable) ==
    [sheet EXCEPT !.columns = @ \ {variable},
                  !.rows = [i \in DOMAIN @ |-> [c \in sheet.columns \ {variable} |-> @[i][c]]]]

GoodBooks ==
    {[exists |-> TRUE,
      sheets |-> [s \in {"Control Group", "Test Group"} |->
                    IF s = "Control Group" THEN c ELSE t]] :
        c \in Sheets(1), t \in Sheets(2)}

Restrict(f, S) == [x \in S |-> f[x]]

FaultyBooks ==
    UNION {
      { [b EXCEPT !.exists = FALSE],
        [b EXCEPT !.sheets = Restrict(@, {"Test Group"})],
        [b EXCEPT !.sheets = Restrict(@, {"Control Group"})],
        [b EXCEPT !.sheets["Control Group"] = DropColumn(@, "Purchase")],
        [b EXCEPT !.sheets["Test Group"] = DropColumn(@, "Purchase")] } : b \in GoodBooks }

Books == GoodBooks \cup FaultyBooks

-----------------------------------------------------------------------------
(* pandas *)

\* dataframe[variable]
Column(dataframe, variable) ==
    [i \in 1..Len(dataframe.rows) |-> dataframe.rows[i][variable]]

\* the k-th smallest element of s, k counted from 0
SortedAt(s, k) ==
    CHOOSE v \in Range(s) :
        /\ Cardinality({i \in DOMAIN s : s[i] < v}) <= k
        /\ k < Cardinality({i \in DOMAIN s : s[i] <= v})

\* Series.quantile(q / 100), linear interpolation between order statistics
quantile(s, q) ==
    LET pos  == q * (Len(s) - 1)
        lo   == pos \div 100
        frac == pos % 100
        a    == SortedAt(s, lo)
    IN  IF frac = 0 THEN a
        ELSE a + frac * ((SortedAt(s, lo + 1) - a) \div 100)

\* df.loc[df["Group"] == group, variable]
loc(dataframe, group, variable) ==
    LET keep == SelectSeq(dataframe.rows, LAMBDA r : r["Group"] = group)
    IN  [i \in 1..Len(keep) |-> keep[i][variable]]

\* dataframe["Group"] = group
SetGroup(dataframe, group) ==
    [dataframe EXCEPT !.columns = @ \cup {"Group"},
                      !.rows = [i \in DOMAIN @ |-> @[i] @@ [c \in {"Group"} |-> group]]]

\* pd.concat([a, b], axis=0): ignore_index left out
concat_keep_index(a, b) ==
    [columns |-> a.columns \cup b.columns,
     index   |-> a.index \o b.index,
     rows    |-> a.rows \o b.rows]

\* pd.concat([a, b], axis=0, ignore_index=True)
concat(a, b) ==
    [columns |-> a.columns \cup b.columns,
     index   |-> [i \in 1..(Len(a.rows) + Len(b.rows)) |-> i - 1],
     rows    |-> a.rows \o b.rows]

-----------------------------------------------------------------------------
(* Step 3: Checking and Suppressing Outliers *)

\* the quartiles proper (25th, 75th) taken for the 1st and 99th percentiles
outlier_thresholds_quartiles(dataframe, variable) ==
    LET quartile1 == quantile(Column(dataframe, variable), 25)
        quartile3 == quantile(Column(dataframe, variable), 75)
        interquantile_range == quartile3 - quartile1
        up_limit  == quartile3 + 3 * (interquantile_range \div 2)
        low_limit == quartile1 - 3 * (interquantile_range \div 2)
    IN  <<low_limit, up_limit>>

outlier_thresholds(dataframe, variable) ==
    LET quartile1 == quantile(Column(dataframe, variable), 1)
        quartile3 == quantile(Column(dataframe, variable), 99)
        interquantile_range == quartile3 - quartile1
        up_limit  == quartile3 + 3 * (interquantile_range \div 2)
        low_limit == quartile1 - 3 * (interquantile_range \div 2)
    IN  <<low_limit, up_limit>>

\* dataframe.loc[mask, variable] = value, for the mask "below(value)"
SetBelow(dataframe, variable, low_limit) ==
    [dataframe EXCEPT !.rows = [i \in DOMAIN @ |->
        IF @[i][variable] < low_limit THEN [@[i] EXCEPT ![variable] = low_limit] ELSE @[i]]]

SetAbove(dataframe, variable, up_limit) ==
    [dataframe EXCEPT !.rows = [i \in DOMAIN @ |->
        IF @[i][variable] > up_limit THEN [@[i] EXCEPT ![variable] = up_limit] ELSE @[i]]]

\* line 84 left out: only the upper side is capped
replace_upper_only(dataframe, variable) ==
    LET th == outlier_thresholds(dataframe, variable)
    IN  SetAbove(dataframe, variable, th[2])

replace_with_thresholds(dataframe, variable) ==
    LET th == outlier_thresholds(dataframe, variable)
    IN  SetAbove(SetBelow(dataframe, variable, th[1]), variable, th[2])

-----------------------------------------------------------------------------
(* The script, statement by statement *)

ALPHA == 5      \* alpha = 0.05, in hundredths

Groups == {"C", "T"}

\* a reader that answers a missing sheet with an empty frame
read_excel_lenient(book, sheet_name) ==
    IF ~book.exists THEN [raised |-> "FileNotFoundError"]
    ELSE IF sheet_name \notin DOMAIN book.sheets
         THEN [raised |-> "", frame |-> [columns |-> {}, index |-> <<>>, rows |-> <<>>]]
    ELSE [raised |-> "", frame |-> book.sheets[sheet_name]]

\* pd.read_excel(path, sheet_name=...): a frame, or the exception raised
read_excel(book, sheet_name) ==
    IF ~book.exists THEN [raised |-> "FileNotFoundError"]
    ELSE IF sheet_name \notin DOMAIN book.sheets THEN [raised |-> "ValueError"]
    ELSE [raised |-> "", frame |-> book.sheets[sheet_name]]

Line(text, values) == [text |-> text, values |-> values]

\* check_df(dataframe): the report opens with the shape
check_df(dataframe) ==
    <<Line("check_df", <<Len(dataframe.rows), Cardinality(dataframe.columns)>>)>>

Call(fn, args, kwargs) == [fn |-> fn, args |-> args, kwargs |-> kwargs]

Abort(exception) ==
    /\ error' = exception
    /\ pc' = "aborted"

Init ==
    /\ xlsx \in Books
    /\ dfc = NoFrame
    /\ dft = NoFrame
    /\ df = NoFrame
    /\ statistic = Undefined
    /\ p_value = Undefined
    /\ alpha = Undefined
    /\ test_stat = Undefined
    /\ stdout = <<>>
    /\ calls = <<>>
    /\ returned = Undefined
    /\ limits = [g \in Groups |-> <<>>]
    /\ error = Undefined
    /\ pc = "load_control"

\* line 48
LoadControl ==
    /\ pc = "load_control"
    /\ LET r == read_excel(xlsx, "Control Group")
       IN  IF r.raised # ""
           THEN Abort(r.raised) /\ UNCHANGED dfc
           ELSE dfc' = r.frame /\ pc' = "load_test" /\ UNCHANGED error
    /\ UNCHANGED <<xlsx, dft, df, statistic, p_value, alpha, test_stat,
                   stdout, calls, returned, limits>>

\* line 49
LoadTest ==
    /\ pc = "load_test"
    /\ LET r == read_excel(xlsx, "Test Group")
       IN  IF r.raised # ""
           THEN Abort(r.raised) /\ UNCHANGED dft
           ELSE dft' = r.frame /\ pc' = "check_control" /\ UNCHANGED error
    /\ UNCHANGED <<xlsx, dfc, df, statistic, p_value, alpha, test_stat,
                   stdout, calls, returned, limits>>

\* line 70
CheckControl ==
    /\ pc = "check_control"
    /\ stdout' = stdout \o check_df(dfc)
    /\ pc' = "check_test"
    /\ UNCHANGED <<xlsx, dfc, dft, df, statistic, p_value, alpha, test_stat,
                   calls, returned, limits, error>>

\* line 71
CheckTest ==
    /\ pc = "check_test"
    /\ stdout' = stdout \o check_df(dft)
    /\ pc' = "cap_control"
    /\ UNCHANGED <<xlsx, dfc, dft, df, statistic, p_value, alpha, test_stat,
                   calls, returned, limits, error>>

\* line 89 with the limits taken from the other group's frame
CapControlWithTestLimits ==
    /\ pc = "cap_control"
    /\ IF "Purchase" \notin dfc.columns \/ "Purchase" \notin dft.columns
       THEN Abort("KeyError") /\ UNCHANGED <<dfc, limits>>
       ELSE /\ LET th == outlier_thresholds(dft, "Purchase")
               IN  /\ dfc' = SetAbove(SetBelow(dfc, "Purchase", th[1]), "Purchase", th[2])
                   /\ limits' = [limits EXCEPT !["C"] = Append(@, th)]
            /\ pc' = "cap_test"
            /\ UNCHANGED error
    /\ UNCHANGED <<xlsx, dft, df, statistic, p_value, alpha, test_stat,
                   stdout, calls, returned>>

\* line 89; dataframe[variable] raises KeyError when the column is absent
CapControl ==
    /\ pc = "cap_control"
    /\ IF "Purchase" \notin dfc.columns
       THEN Abort("KeyError") /\ UNCHANGED <<dfc, limits>>
       ELSE /\ dfc' = replace_with_thresholds(dfc, "Purchase")
            /\ limits' = [limits EXCEPT !["C"] = Append(@, outlier_thresholds(dfc, "Purchase"))]
            /\ pc' = "cap_test"
            /\ UNCHANGED error
    /\ UNCHANGED <<xlsx, dft, df, statistic, p_value, alpha, test_stat,
                   stdout, calls, returned>>

\* line 90
CapTest ==
    /\ pc = "cap_test"
    /\ IF "Purchase" \notin dft.columns
       THEN Abort("KeyError") /\ UNCHANGED <<dft, limits>>
       ELSE /\ dft' = replace_with_thresholds(dft, "Purchase")
            /\ limits' = [limits EXCEPT !["T"] = Append(@, outlier_thresholds(dft, "Purchase"))]
            /\ pc' = "label_control"
            /\ UNCHANGED error
    /\ UNCHANGED <<xlsx, dfc, df, statistic, p_value, alpha, test_stat,
                   stdout, calls, returned>>

\* line 99
LabelControl ==
    /\ pc = "label_control"
    /\ dfc' = SetGroup(dfc, "C")
    /\ pc' = "label_test"
    /\ UNCHANGED <<xlsx, dft, df, statistic, p_value, alpha, test_stat,
                   stdout, calls, returned, limits, error>>

\* line 100 with the control label
LabelTestAsControl ==
    /\ pc = "label_test"
    /\ dft' = SetGroup(dft, "C")
    /\ pc' = "concat"
    /\ UNCHANGED <<xlsx, dfc, df, statistic, p_value, alpha, test_stat,
                   stdout, calls, returned, limits, error>>

\* line 100
LabelTest ==
    /\ pc = "label_test"
    /\ dft' = SetGroup(dft, "T")
    /\ pc' = "concat"
    /\ UNCHANGED <<xlsx, dfc, df, statistic, p_value, alpha, test_stat,
                   stdout, calls, returned, limits, error>>

\* line 102
Concat ==
    /\ pc = "concat"
    /\ df' = concat(dfc, dft)
    /\ pc' = "shapiro_control"
    /\ UNCHANGED <<xlsx, dfc, dft, statistic, p_value, alpha, test_stat,
                   stdout, calls, returned, limits, error>>

Results == [stat : StatValues, p : PValues]

\* lines 121-126
ShapiroControl ==
    /\ pc = "shapiro_control"
    /\ \E r \in Results :
        /\ calls' = Append(calls, Call("shapiro", <<loc(df, "C", "Purchase")>>, {}))
        /\ returned' = r
        /\ statistic' = r.stat
        /\ p_value' = r.p
        /\ alpha' = ALPHA
        /\ stdout' = Append(stdout,
                IF p_value' > alpha' THEN Line("Sample looks normal!", <<>>)
                ELSE Line("Sample does not look normal!", <<>>))
    /\ pc' = "shapiro_test"
    /\ UNCHANGED <<xlsx, dfc, dft, df, test_stat, limits, error>>

\* lines 128-133
ShapiroTest ==
    /\ pc = "shapiro_test"
    /\ \E r \in Results :
        /\ calls' = Append(calls, Call("shapiro", <<loc(df, "T", "Purchase")>>, {}))
        /\ returned' = r
        /\ statistic' = r.stat
        /\ p_value' = r.p
        /\ alpha' = ALPHA
        /\ stdout' = Append(stdout,
                IF p_value' > alpha' THEN Line("Sample looks normal!", <<>>)
                ELSE Line("Sample does not look normal!", <<>>))
    /\ pc' = "levene"
    /\ UNCHANGED <<xlsx, dfc, dft, df, test_stat, limits, error>>

\* lines 141-146 run only when both samples looked normal
LeveneOnlyIfNormal ==
    /\ pc = "levene"
    /\ IF \A i \in 1..Len(stdout) : stdout[i].text # "Sample does not look normal!"
       THEN \E r \in Results :
            /\ calls' = Append(calls, Call("levene",
                    <<loc(df, "C", "Purchase"), loc(df, "T", "Purchase")>>, {}))
            /\ returned' = r
            /\ statistic' = r.stat
            /\ p_value' = r.p
            /\ alpha' = ALPHA
            /\ stdout' = Append(stdout,
                    IF p_value' > alpha' THEN Line("Variances are homogene!", <<>>)
                    ELSE Line("Variances are not homogene!", <<>>))
       ELSE UNCHANGED <<calls, returned, statistic, p_value, alpha, stdout>>
    /\ pc' = "ttest"
    /\ UNCHANGED <<xlsx, dfc, dft, df, test_stat, limits, error>>

\* lines 141-146
Levene ==
    /\ pc = "levene"
    /\ \E r \in Results :
        /\ calls' = Append(calls, Call("levene",
                <<loc(df, "C", "Purchase"), loc(df, "T", "Purchase")>>, {}))
        /\ returned' = r
        /\ statistic' = r.stat
        /\ p_value' = r.p
        /\ alpha' = ALPHA
        /\ stdout' = Append(stdout,
                IF p_value' > alpha' THEN Line("Variances are homogene!", <<>>)
                ELSE Line("Variances are not homogene!", <<>>))
    /\ pc' = "ttest"
    /\ UNCHANGED <<xlsx, dfc, dft, df, test_stat, limits, error>>

\* lines 154-156 binding only the statistic: p_value keeps Levene's
TTestKeepsPValue ==
    /\ pc = "ttest"
    /\ \E r \in Results :
        /\ calls' = Append(calls, Call("ttest_ind",
                <<loc(df, "C", "Purchase"), loc(df, "T", "Purchase")>>,
                {<<"equal_var", TRUE>>}))
        /\ returned' = r
        /\ test_stat' = r.stat
    /\ pc' = "interpret"
    /\ UNCHANGED <<xlsx, dfc, dft, df, statistic, p_value, alpha, stdout, limits, error>>

\* lines 154-156
TTest ==
    /\ pc = "ttest"
    /\ \E r \in Results :
        /\ calls' = Append(calls, Call("ttest_ind",
                <<loc(df, "C", "Purchase"), loc(df, "T", "Purchase")>>,
                {<<"equal_var", TRUE>>}))
        /\ returned' = r
        /\ test_stat' = r.stat
        /\ p_value' = r.p
    /\ pc' = "interpret"
    /\ UNCHANGED <<xlsx, dfc, dft, df, statistic, alpha, stdout, limits, error>>

\* lines 157-164
Interpret ==
    /\ pc = "interpret"
    /\ stdout' = stdout \o
            << IF p_value > alpha THEN Line("H0 can not be denied!", <<>>)
               ELSE Line("H0 can denied!", <<>>),
               Line("t statistic = ", <<test_stat>>),
               Line("p value = ", <<p_value>>) >>
    /\ pc' = "done"
    /\ UNCHANGED <<xlsx, dfc, dft, df, statistic, p_value, alpha, test_stat,
                   calls, returned, limits, error>>

Next ==
    \/ LoadControl
    \/ LoadTest
    \/ CheckControl
    \/ CheckTest
    \/ CapControl
    \/ CapTest
    \/ LabelControl
    \/ LabelTest
    \/ Concat
    \/ ShapiroControl
    \/ ShapiroTest
    \/ Levene
    \/ TTest
    \/ Interpret

Spec == Init /\ [][Next]_vars

-----------------------------------------------------------------------------
(* replace_with_thresholds applied repeatedly to the loaded frames *)

CapInit ==
    /\ xlsx \in GoodBooks
    /\ dfc = xlsx.sheets["Control Group"]
    /\ dft = xlsx.sheets["Test Group"]
    /\ df = NoFrame
    /\ statistic = Undefined
    /\ p_value = Undefined
    /\ alpha = Undefined
    /\ test_stat = Undefined
    /\ stdout = <<>>
    /\ calls = <<>>
    /\ returned = Undefined
    /\ limits = [g \in Groups |-> <<>>]
    /\ error = Undefined
    /\ pc = "cap"

ReapplyControl ==
    /\ pc = "cap"
    /\ Len(limits["C"]) < MaxApplications
    /\ dfc' = replace_with_thresholds(dfc, "Purchase")
    /\ limits' = [limits EXCEPT !["C"] = Append(@, outlier_thresholds(dfc, "Purchase"))]
    /\ UNCHANGED <<xlsx, dft, df, statistic, p_value, alpha, test_stat,
                   stdout, calls, returned, error, pc>>

ReapplyTest ==
    /\ pc = "cap"
    /\ Len(limits["T"]) < MaxApplications
    /\ dft' = replace_with_thresholds(dft, "Purchase")
    /\ limits' = [limits EXCEPT !["T"] = Append(@, outlier_thresholds(dft, "Purchase"))]
    /\ UNCHANGED <<xlsx, dfc, df, statistic, p_value, alpha, test_stat,
                   stdout, calls, returned, error, pc>>

CapNext ==
    \/ ReapplyControl
    \/ ReapplyTest

CapSpec == CapInit /\ [][CapNext]_vars

-----------------------------------------------------------------------------
(* Properties *)

IsPrefix(s, t) == Len(s) <= Len(t) /\ \A i \in 1..Len(s) : s[i] = t[i]

AfterConcat == {"shapiro_control", "shapiro_test", "levene", "ttest", "interpret", "done"}

SheetOf(g) == xlsx.sheets[IF g = "C" THEN "Control Group" ELSE "Test Group"]
FrameOf(g) == IF g = "C" THEN dfc ELSE dft

\* the lines printed by the hypothesis tester (everything but the check_df reports)
Verdicts == SelectSeq(stdout, LAMBDA l : l.text # "check_df")

Normal(i) == Verdicts[i].text = "Sample looks normal!"
Homogeneous == Verdicts[3].text = "Variances are homogene!"

\* the divisions of the next application of replace_with_thresholds leave no remainder
ExactArithmetic ==
    \A g \in Groups :
        (FrameOf(g) # NoFrame /\ "Purchase" \in FrameOf(g).columns
            /\ Len(limits[g]) < MaxApplications) =>
        LET s  == Column(FrameOf(g), "Purchase")
            n  == Len(s)
            gap(q) == SortedAt(s, Min((q * (n - 1)) \div 100 + 1, n - 1))
                        - SortedAt(s, (q * (n - 1)) \div 100)
        IN  /\ gap(1) % 100 = 0
            /\ gap(99) % 100 = 0
            /\ (quantile(s, 99) - quantile(s, 1)) % 2 = 0

\* C1: the comparison test that is run is the t-test when both Shapiro-Wilk
\* p-values exceed 0.05 and the Mann-Whitney U test when either is <= 0.05.
C1_TestGatedByNormality ==
    pc \in {"interpret", "done"} =>
        calls[Len(calls)].fn =
            IF Normal(1) /\ Normal(2) THEN "ttest_ind" ELSE "mannwhitneyu"

\* C2: whenever the t-test is run, its equal_var flag is the Levene
\* classification: true when homogeneous, false when heterogeneous.
C2_EqualVarFollowsLevene ==
    pc \in {"interpret", "done"} =>
        \A i \in 1..Len(calls) :
            calls[i].fn = "ttest_ind" =>
                calls[i].kwargs = {<<"equal_var", Homogeneous>>}

\* C3 (as claimed): once replace_with_thresholds has been applied to a
\* group, applying it again changes no value.
C3_CappingIdempotent ==
    \A g \in Groups :
        Len(limits[g]) >= 1 =>
            replace_with_thresholds(FrameOf(g), "Purchase") = FrameOf(g)

\* C3 (amended): repeated capping only moves values inward: after any number
\* of applications every value lies within the limits of every application
\* made so far; and a further application changes nothing when the
\* applications so far changed nothing.
C3_CappingMovesInward ==
    \A g \in Groups :
        /\ \A k \in 1..Len(limits[g]) :
             \A i \in 1..Len(FrameOf(g).rows) :
                /\ limits[g][k][1] <= FrameOf(g).rows[i]["Purchase"]
                /\ FrameOf(g).rows[i]["Purchase"] <= limits[g][k][2]
        /\ (Len(limits[g]) >= 1 /\ FrameOf(g) = SheetOf(g)) =>
             replace_with_thresholds(FrameOf(g), "Purchase") = FrameOf(g)

\* a second application has lowered a value that the first had already capped
C3_Witness ==
    /\ Len(limits["C"]) >= 2
    /\ limits["C"][2][2] < limits["C"][1][2]
    /\ \E i \in 1..Len(dfc.rows) :
        /\ SheetOf("C").rows[i]["Purchase"] > limits["C"][1][2]
        /\ dfc.rows[i]["Purchase"] = limits["C"][2][2]

AfterCap(g) == IF g = "C" THEN {"cap_test", "label_control"} ELSE {"label_control"}

\* C4: once replace_with_thresholds has been applied to a group, every value
\* v of the field satisfies low_limit <= v <= up_limit, with low_limit =
\* Q1 - 1.5 (Q3 - Q1) and up_limit = Q3 + 1.5 (Q3 - Q1) taken from the 1st and
\* 99th percentiles of the values before the mutation; values below (above)
\* the limits are set to the limit, values inside are left as they were.
C4_CappedWithinLimits ==
    \A g \in Groups :
        pc \in AfterCap(g) =>
            LET raw == Column(SheetOf(g), "Purchase")
                now == Column(FrameOf(g), "Purchase")
                Q1  == quantile(raw, 1)
                Q3  == quantile(raw, 99)
                low == Q1 - 3 * ((Q3 - Q1) \div 2)
                up  == Q3 + 3 * ((Q3 - Q1) \div 2)
            IN  /\ limits[g] = << <<low, up>> >>
                /\ Len(now) = Len(raw)
                /\ \A i \in 1..Len(raw) :
                    /\ low <= now[i] /\ now[i] <= up
                    /\ raw[i] < low => now[i] = low
                    /\ raw[i] > up => now[i] = up
                    /\ (low <= raw[i] /\ raw[i] <= up) => now[i] = raw[i]

\* the one application of the script has capped a value of the control group
C4_Witness ==
    /\ pc = "cap_test"
    /\ \E i \in 1..Len(dfc.rows) :
        dfc.rows[i]["Purchase"] # SheetOf("C").rows[i]["Purchase"]

\* C5: the combined frame has |Control| + |Test| rows, the control rows first
\* and then the test rows, each group in its own order, index 0..n-1, with
\* no row dropped.
C5_MergePreservesRows ==
    pc \in AfterConcat =>
        LET nc == Len(dfc.rows)
            nt == Len(dft.rows)
        IN  /\ Len(df.rows) = nc + nt
            /\ SubSeq(df.rows, 1, nc) = dfc.rows
            /\ SubSeq(df.rows, nc + 1, nc + nt) = dft.rows
            /\ Len(df.index) = nc + nt
            /\ \A i \in 1..(nc + nt) : df.index[i] = i - 1

\* two sheets of different sizes have been merged
C5_Witness ==
    /\ pc = "shapiro_control"
    /\ Len(dfc.rows) > Len(dft.rows)
    /\ Len(df.rows) = Len(dfc.rows) + Len(dft.rows)

\* r was read from the sheet of group g: the sheet holds a row with r's
\* Impression, Click and Earning (Click numbers the rows of a sheet, see Sheet)
ReadFrom(r, g) ==
    LET j == r["Click"] % 100
    IN  /\ j \in 1..Len(SheetOf(g).rows)
        /\ \A c \in Columns \ {"Purchase"} : r[c] = SheetOf(g).rows[j][c]

\* C6: every row of the combined frame carries a label in {"C", "T"} that
\* matches the sheet the row came from, so that selecting by label gives back
\* each group's capped Purchase values.
C6_LabelsMatchSource ==
    pc \in AfterConcat =>
        /\ \A i \in 1..Len(df.rows) :
            /\ df.rows[i]["Group"] \in {"C", "T"}
            /\ ReadFrom(df.rows[i], df.rows[i]["Group"])
        /\ \A g \in Groups :
            /\ loc(df, g, "Purchase") = Column(FrameOf(g), "Purchase")
            /\ pc = "shapiro_control" =>
                 loc(df, g, "Purchase") =
                    Column(replace_with_thresholds(SheetOf(g), "Purchase"), "Purchase")

\* a capped test-group value is found under the label "T"
C6_Witness ==
    /\ pc \in AfterConcat
    /\ \E i \in 1..Len(dft.rows) :
        /\ dft.rows[i]["Purchase"] # SheetOf("T").rows[i]["Purchase"]
        /\ loc(df, "T", "Purchase")[i] = dft.rows[i]["Purchase"]

ExpectedCalls ==
    << <<"shapiro", 1>>, <<"shapiro", 1>>, <<"levene", 2>>, <<"ttest_ind", 2>> >>

NormalityLines == {"Sample looks normal!", "Sample does not look normal!"}
HomogeneityLines == {"Variances are homogene!", "Variances are not homogene!"}
DecisionLines == {"H0 can not be denied!", "H0 can denied!"}

ExpectedVerdicts ==
    <<NormalityLines, NormalityLines, HomogeneityLines, DecisionLines,
      {"t statistic = "}, {"p value = "}>>

\* C7: the tester runs Normality(Control), Normality(Test), Homogeneity,
\* Comparison, Interpretation in that order, none repeated or skipped; the
\* Levene test is run and its verdict printed exactly once whatever the
\* normality verdicts were.
C7_StagesInOrder ==
    LET made == [i \in 1..Len(calls) |-> <<calls[i].fn, Len(calls[i].args)>>]
        step == CASE pc = "shapiro_test" -> 1
                  [] pc = "levene"       -> 2
                  [] pc = "ttest"        -> 3
                  [] pc = "interpret"    -> 4
                  [] pc = "done"         -> 4
                  [] OTHER               -> 0
    IN  /\ IsPrefix(made, ExpectedCalls)
        /\ Len(Verdicts) <= Len(ExpectedVerdicts)
        /\ \A i \in 1..Len(Verdicts) : Verdicts[i].text \in ExpectedVerdicts[i]
        /\ pc # "aborted" => Len(calls) = step
        /\ pc \in {"shapiro_test", "levene", "ttest", "interpret"} =>
                Len(Verdicts) = Min(step, 3)
        /\ pc = "done" => Len(Verdicts) = Len(ExpectedVerdicts)
        /\ pc \in {"ttest", "interpret", "done"} =>
                /\ calls[1].args = <<loc(df, "C", "Purchase")>>
                /\ calls[2].args = <<loc(df, "T", "Purchase")>>
                /\ calls[3].fn = "levene"
                /\ Cardinality({i \in 1..Len(Verdicts) :
                        Verdicts[i].text \in HomogeneityLines}) = 1

\* a run is complete although a sample did not look normal
C7_Witness ==
    /\ pc = "done"
    /\ ~Normal(1)
    /\ Normal(2)
    /\ Verdicts[3].text \in HomogeneityLines

\* C8: the interpretation classifies the p-value the comparison test has
\* just returned: above 0.05 "H0 can not be denied!", otherwise (0.05
\* included) "H0 can denied!", and prints the statistic and the p-value.
C8_InterpretsComparisonPValue ==
    pc = "done" =>
        /\ calls[Len(calls)].fn = "ttest_ind"
        /\ Verdicts[4].text =
             IF returned.p > ALPHA THEN "H0 can not be denied!" ELSE "H0 can denied!"
        /\ Verdicts[5] = Line("t statistic = ", <<returned.stat>>)
        /\ Verdicts[6] = Line("p value = ", <<returned.p>>)
        /\ Len(stdout) = Len(Verdicts) + 2
        /\ SubSeq(stdout, 3, Len(stdout)) = Verdicts

\* the comparison p-value is exactly 0.05 after a homogeneous Levene verdict
C8_Witness ==
    /\ pc = "done"
    /\ returned.p = ALPHA
    /\ Homogeneous
    /\ Verdicts[4].text = "H0 can denied!"

NoFileOrSheet ==
    \/ ~xlsx.exists
    \/ DOMAIN xlsx.sheets # {"Control Group", "Test Group"}

NoPurchaseColumn ==
    /\ ~NoFileOrSheet
    /\ \E g \in Groups : "Purchase" \notin SheetOf(g).columns

\* C9 (as claimed): a run that a missing file, sheet or Purchase column
\* aborts has produced no descriptive statistics and no verdict.
C9_AbortsBeforeAnyStatistics ==
    (NoFileOrSheet \/ NoPurchaseColumn) =>
        /\ pc \notin AfterConcat
        /\ calls = <<>>
        /\ pc = "aborted" => stdout = <<>>

\* C9 (amended): a missing file or sheet aborts the run before anything is
\* printed; a missing Purchase column aborts it in replace_with_thresholds,
\* after check_df has printed the descriptive statistics of both sheets;
\* in both cases no normality, homogeneity or comparison test is run, no
\* verdict is printed and no combined frame is built.
C9_AbortsBeforeAnyTest ==
    /\ NoFileOrSheet =>
        /\ pc \in {"load_control", "load_test", "aborted"}
        /\ stdout = <<>>
    /\ NoPurchaseColumn =>
        /\ pc = "aborted" =>
             /\ error = "KeyError"
             /\ stdout = check_df(SheetOf("C")) \o check_df(SheetOf("T"))
    /\ (NoFileOrSheet \/ NoPurchaseColumn) =>
        /\ pc \notin {"label_control", "label_test"} \cup AfterConcat
        /\ calls = <<>>
        /\ Verdicts = <<>>
        /\ df = NoFrame
    /\ pc = "aborted" => (NoFileOrSheet \/ NoPurchaseColumn)

\* the test sheet lacks Purchase: both reports are out, the control group is
\* capped, and the run is over
C9_Witness ==
    /\ pc = "aborted"
    /\ error = "KeyError"
    /\ Len(stdout) = 2
    /\ Len(limits["C"]) = 1

Clip(v, th) == IF v < th[1] THEN th[1] ELSE IF v > th[2] THEN th[2] ELSE v

CappedBy(sheet, th) ==
    [sheet EXCEPT !.rows = [i \in DOMAIN @ |->
        [@[i] EXCEPT !["Purchase"] = Clip(@, th)]]]

\* C10: each group is capped with limits computed from its own Purchase
\* values; capping a group leaves alone the other group's frame and the
\* capped group's other columns, row count, index and row order.
C10_CappingPerGroup ==
    /\ pc = "cap_test" =>
        /\ limits["C"] = <<outlier_thresholds(SheetOf("C"), "Purchase")>>
        /\ dfc = CappedBy(SheetOf("C"), limits["C"][1])
        /\ dft = SheetOf("T")
    /\ pc = "label_control" =>
        /\ limits["C"] = <<outlier_thresholds(SheetOf("C"), "Purchase")>>
        /\ limits["T"] = <<outlier_thresholds(SheetOf("T"), "Purchase")>>
        /\ dfc = CappedBy(SheetOf("C"), limits["C"][1])
        /\ dft = CappedBy(SheetOf("T"), limits["T"][1])

\* both groups are capped, the control group's outlier at limits other than
\* the test group's
C10_Witness ==
    /\ pc = "label_control"
    /\ limits["C"][1] # limits["T"][1]
    /\ dfc # SheetOf("C")
    /\ dft # SheetOf("T")

====
